---- MODULE Spec2Model ----
(***************************************************************************)
(* PageRank (pagerank.py): transition_model, sample_pagerank and           *)
(* iterate_pagerank over a corpus, a mapping page -> set of linked pages.  *)
(*                                                                         *)
(* Pages are 1..N in the corpus dict's key (insertion) order: page k is    *)
(* the k-th key, so "for page in corpus" visits 1, 2, ..., N.  Every link  *)
(* structure over those keys is enumerated, so fixing the names loses no   *)
(* corpus.                                                                 *)
(*                                                                         *)
(* The program's numbers are modelled as exact rationals num/den in lowest *)
(* terms (den > 0); the rounding of the program's binary floating point is *)
(* not modelled.                                                           *)
(***************************************************************************)
EXTENDS Integers, Sequences, FiniteSets, TLC

VARIABLES fn, pc, corpus, damping_factor, n, page, modelPage,
          probDist, pageRank, i,
          pageRankCopy, residuals, convergence, pos, passes

vars == <<fn, pc, corpus, damping_factor, n, page, modelPage,
          probDist, pageRank, i,
          pageRankCopy, residuals, convergence, pos, passes>>

sampleVars == <<n, i>>
iterVars == <<pageRankCopy, residuals, convergence, pos, passes>>

(***************************************************************************)
(* Bounds                                                                  *)
(***************************************************************************)
\* largest corpus (number of pages)
MaxN == 3
\* largest sample count n handed to sample_pagerank
MaxSamples == 2

(***************************************************************************)
(* Rational arithmetic: the program's  +  -  *  /  and comparisons         *)
(***************************************************************************)
Abs(x) == IF x < 0 THEN -x ELSE x

RECURSIVE GCD(_, _)
GCD(a, b) == IF b = 0 THEN a ELSE GCD(b, a % b)

\* num/den in lowest terms, den > 0 required of the caller
Rat(num, den) ==
    LET g == GCD(Abs(num), den)
    IN  [num |-> num \div g, den |-> den \div g]

Zero == Rat(0, 1)
One == Rat(1, 1)

\* a + b
RAdd(a, b) ==
    LET l == (a.den \div GCD(a.den, b.den)) * b.den
    IN  Rat(a.num * (l \div a.den) + b.num * (l \div b.den), l)

\* a - b
RSub(a, b) == RAdd(a, [num |-> -b.num, den |-> b.den])

\* a * b
RMul(a, b) ==
    LET g1 == GCD(Abs(a.num), b.den)
        g2 == GCD(Abs(b.num), a.den)
    IN  Rat((a.num \div g1) * (b.num \div g2), (a.den \div g2) * (b.den \div g1))

\* a / k for an integer k > 0 (a length)
RDivInt(a, k) == RMul(a, Rat(1, k))

\* a > 1/t for an integer t > 0: num * t > den, computed without the product
RGtUnitFrac(a, t) == a.num > a.den \div t

\* a > 0
RPositive(a) == a.num > 0

\* sum(f[k] for k in 1..m), added in key order starting from 0 as Python's sum does
RECURSIVE RSumTo(_, _)
RSumTo(f, m) == IF m = 0 THEN Zero ELSE RAdd(RSumTo(f, m - 1), f[m])

(***************************************************************************)
(* The corpus                                                              *)
(***************************************************************************)
\* len(corpus)
Len_(corp) == Cardinality(DOMAIN corp)

\* the corpora crawl can return over k pages: no link to the page itself,
\* no link out of the corpus
Corpora(k) ==
    {c \in [1..k -> SUBSET (1..k)] : \A p \in 1..k : p \notin c[p]}

\* the damping factors tried: 1/2 and DAMPING = 0.85
Dampings == {Rat(1, 2), Rat(17, 20)}

(***************************************************************************)
(* transition_model                                                        *)
(***************************************************************************)
\* randomPageProb = (1 - damping_factor) / len(corpus)
randomPageProbMissingDivision(corp, damping) == RSub(One, damping)
randomPageProb(corp, damping) == RDivInt(RSub(One, damping), Len_(corp))

\* linkProb of a page with links: damping_factor / len(corpus[modelPage])
linkProbOverCorpus(corp, pg, damping) == RDivInt(damping, Len_(corp))
linkProbLinked(corp, pg, damping) == RDivInt(damping, Cardinality(corp[pg]))

\* linkProb of a page without links: damping_factor / len(corpus)
linkProbDangling(corp, damping) == RDivInt(damping, Len_(corp))

transition_model(corp, pg, damping) ==
    IF Cardinality(corp[pg]) = 0
    THEN [q \in DOMAIN corp |->
            RAdd(randomPageProb(corp, damping), linkProbDangling(corp, damping))]
    ELSE [q \in DOMAIN corp |->
            IF q \in corp[pg]
            THEN RAdd(randomPageProb(corp, damping), linkProbLinked(corp, pg, damping))
            ELSE randomPageProb(corp, damping)]

(***************************************************************************)
(* A call of transition_model(corpus, page, damping_factor)                *)
(***************************************************************************)
InitCommon ==
    /\ pc = "call"
    /\ modelPage = 0
    /\ probDist = << >>
    /\ pageRank = << >>
    /\ i = 0
    /\ pageRankCopy = << >>
    /\ residuals = << >>
    /\ convergence = FALSE
    /\ pos = 0
    /\ passes = 0

InitTransition ==
    /\ fn = "transition_model"
    /\ \E k \in 1..MaxN : corpus \in Corpora(k)
    /\ damping_factor \in Dampings
    /\ page \in DOMAIN corpus
    /\ n = 0
    /\ InitCommon

TransitionCall ==
    /\ fn = "transition_model"
    /\ pc = "call"
    /\ modelPage' = page
    /\ probDist' = transition_model(corpus, page, damping_factor)
    /\ pc' = "returned"
    /\ UNCHANGED <<fn, corpus, damping_factor, page, pageRank>>
    /\ UNCHANGED sampleVars
    /\ UNCHANGED iterVars

(***************************************************************************)
(* sample_pagerank(corpus, damping_factor, n)                              *)
(***************************************************************************)
InitSample ==
    /\ fn = "sample_pagerank"
    /\ \E k \in 0..MaxN : corpus \in Corpora(k)
    /\ damping_factor \in Dampings
    /\ n \in 1..MaxSamples
    /\ page = 0
    /\ InitCommon

\* page = random.choice(list(corpus.keys())); IndexError on an empty corpus
SampleChoose ==
    /\ fn = "sample_pagerank"
    /\ pc = "call"
    /\ IF DOMAIN corpus = {}
       THEN /\ pc' = "raised"
            /\ UNCHANGED page
       ELSE /\ page' \in DOMAIN corpus
            /\ pc' = "zero"
    /\ UNCHANGED <<fn, corpus, damping_factor, n, modelPage, probDist, pageRank, i>>
    /\ UNCHANGED iterVars

\* the value "page" holds after "for page in corpus": the last key
pageAfterFor(corp, pg) == IF DOMAIN corp = {} THEN pg ELSE Len_(corp)

\* pageRank = dict(); for page in corpus: pageRank[page] = 0
SampleZero ==
    /\ fn = "sample_pagerank"
    /\ pc = "zero"
    /\ pageRank' = [p \in DOMAIN corpus |-> Zero]
    /\ page' = pageAfterFor(corpus, page)
    /\ pc' = "loop"
    /\ UNCHANGED <<fn, corpus, damping_factor, n, modelPage, probDist, i>>
    /\ UNCHANGED iterVars

\* the amount one sample adds: 1/n
sampleIncrementPerPage(corp, samples) == Rat(1, samples * Len_(corp))
sampleIncrement(corp, samples) == Rat(1, samples)

\* the pages random.choices(population, weights) can return
choices(dist) == {p \in DOMAIN dist : RPositive(dist[p])}

\* one iteration of "for i in range(n)"
SampleStep ==
    /\ fn = "sample_pagerank"
    /\ pc = "loop"
    /\ i < n
    /\ pageRank' = [pageRank EXCEPT ![page] = RAdd(@, sampleIncrement(corpus, n))]
    /\ modelPage' = page
    /\ probDist' = transition_model(corpus, page, damping_factor)
    /\ page' \in choices(probDist')
    /\ i' = i + 1
    /\ UNCHANGED <<fn, pc, corpus, damping_factor, n>>
    /\ UNCHANGED iterVars

\* return pageRank
SampleReturn ==
    /\ fn = "sample_pagerank"
    /\ pc = "loop"
    /\ i = n
    /\ pc' = "returned"
    /\ UNCHANGED <<fn, corpus, damping_factor, n, page, modelPage,
                   probDist, pageRank, i>>
    /\ UNCHANGED iterVars

Init == InitTransition \/ InitSample

Next ==
    \/ TransitionCall
    \/ SampleChoose
    \/ SampleZero
    \/ SampleStep
    \/ SampleReturn

Spec == Init /\ [][Next]_vars

(***************************************************************************)
(* iterate_pagerank(corpus, damping_factor)                                *)
(***************************************************************************)
\* the damping factor tried: with 1/2 every rank of a corpus of MaxN pages
\* stays within the integers the checker computes with, up to convergence
IterDampings == {Rat(1, 2)}

\* 1 / 0.001, the bound the residuals are compared with
ThresholdInverse == 1000

InitIter ==
    /\ fn = "iterate_pagerank"
    /\ \E k \in 0..MaxN : corpus \in Corpora(k)
    /\ damping_factor \in IterDampings
    /\ n = 0
    /\ page = 0
    /\ InitCommon

\* pageRank[page] = 1/N and residuals[page] = 1 for every page; convergence = False
IterInit ==
    /\ fn = "iterate_pagerank"
    /\ pc = "call"
    /\ pageRank' = [p \in DOMAIN corpus |-> Rat(1, Len_(corpus))]
    /\ residuals' = [p \in DOMAIN corpus |-> One]
    /\ convergence' = FALSE
    /\ page' = pageAfterFor(corpus, page)
    /\ pc' = "while"
    /\ UNCHANGED <<fn, corpus, damping_factor, modelPage, probDist,
                   pageRankCopy, pos, passes>>
    /\ UNCHANGED sampleVars

\* while convergence == False: pageRankCopy = pageRank.copy(); for page in corpus
IterBeginPass ==
    /\ fn = "iterate_pagerank"
    /\ pc = "while"
    /\ convergence = FALSE
    /\ pageRankCopy' = pageRank
    /\ pos' = 1
    /\ pc' = "for"
    /\ UNCHANGED <<fn, corpus, damping_factor, page, modelPage, probDist,
                   pageRank, residuals, convergence, passes>>
    /\ UNCHANGED sampleVars

\* sum(ranks[k] / len(corpus[k]) for k in corpus if pg in corpus[k]), over the
\* first m keys
RECURSIVE linkSumTo(_, _, _, _)
linkSumTo(corp, ranks, pg, m) ==
    IF m = 0 THEN Zero
    ELSE IF pg \in corp[m]
         THEN RAdd(linkSumTo(corp, ranks, pg, m - 1),
                   RDivInt(ranks[m], Cardinality(corp[m])))
         ELSE linkSumTo(corp, ranks, pg, m - 1)

\* (1-d)/N + d*sum(...), read from the mapping "ranks"
rankFormula(corp, ranks, pg, d) ==
    RAdd(RDivInt(RSub(One, d), Len_(corp)),
         RMul(d, linkSumTo(corp, ranks, pg, Len_(corp))))

\* the body of "for page in corpus" for the pos-th key: the formula reads
\* pageRank itself, which holds the new ranks of the keys before pos
IterUpdatePage ==
    /\ fn = "iterate_pagerank"
    /\ pc = "for"
    /\ pos <= Len_(corpus)
    /\ page' = pos
    /\ pageRank' = [pageRank EXCEPT
                      ![pos] = rankFormula(corpus, pageRank, pos, damping_factor)]
    /\ residuals' = [residuals EXCEPT
                      ![pos] = RSub(pageRankCopy[pos], pageRank'[pos])]
    /\ pos' = pos + 1
    /\ UNCHANGED <<fn, pc, corpus, damping_factor, modelPage, probDist,
                   pageRankCopy, convergence, passes>>
    /\ UNCHANGED sampleVars

\* convergence = True unless some residuals[page] > 0.001
allResidualsLow(corp, res) ==
    \A p \in DOMAIN corp : ~RGtUnitFrac(res[p], ThresholdInverse)

\* the end of the for loop and the check of the residuals
IterCheck ==
    /\ fn = "iterate_pagerank"
    /\ pc = "for"
    /\ pos > Len_(corpus)
    /\ convergence' = allResidualsLow(corpus, residuals)
    /\ passes' = passes + 1
    /\ pc' = "while"
    /\ UNCHANGED <<fn, corpus, damping_factor, page, modelPage, probDist,
                   pageRank, pageRankCopy, residuals, pos>>
    /\ UNCHANGED sampleVars

\* the while loop ends; return pageRank
IterReturn ==
    /\ fn = "iterate_pagerank"
    /\ pc = "while"
    /\ convergence = TRUE
    /\ pc' = "returned"
    /\ UNCHANGED <<fn, corpus, damping_factor, page, modelPage, probDist,
                   pageRank, pageRankCopy, residuals, convergence, pos, passes>>
    /\ UNCHANGED sampleVars

NextIter ==
    \/ IterInit
    \/ IterBeginPass
    \/ IterUpdatePage
    \/ IterCheck
    \/ IterReturn

SpecIter == InitIter /\ [][NextIter]_vars

\* the three functions together
InitAll == Init \/ InitIter

NextAll == Next \/ NextIter

SpecAll == InitAll /\ [][NextAll]_vars

(***************************************************************************)
(* Properties                                                              *)
(***************************************************************************)
\* v = a/b for integers a, b > 0, by cross-multiplication
EqualsFraction(v, a, b) == v.num * b = v.den * a

\* |a| < 1/t and |a| <= 1/t for an integer t > 0, computed without the product
AbsBelowUnitFrac(a, t) == Abs(a.num) <= (a.den - 1) \div t
AbsWithinUnitFrac(a, t) == Abs(a.num) <= a.den \div t

NoDangling(corp) == \A p \in DOMAIN corp : corp[p] # {}

TransitionModelIsDistribution ==
    probDist # << >> =>
        /\ DOMAIN probDist = DOMAIN corpus
        /\ \A q \in DOMAIN probDist : probDist[q].num >= 0
        /\ RSumTo(probDist, Len_(corpus)) = One

\* C2 witness: the distribution of a dangling page among three pages with
\* d = 0.85, a third for each page
DistributionOfDanglingPage ==
    /\ fn = "transition_model"
    /\ pc = "returned"
    /\ Len_(corpus) = 3
    /\ corpus[modelPage] = {}
    /\ damping_factor = Rat(17, 20)
    /\ probDist = <<Rat(1, 3), Rat(1, 3), Rat(1, 3)>>

\* the accumulators of sample_pagerank exist
Sampling == fn = "sample_pagerank" /\ pc \in {"loop", "returned"}

\* C6 (states): the accumulators have one key per page, start at zero, sum to
\* i/n after i steps, and the function returns after exactly n steps, sum 1.
SampleAccumulatorSums ==
    Sampling =>
        /\ DOMAIN pageRank = DOMAIN corpus
        /\ i <= n
        /\ EqualsFraction(RSumTo(pageRank, Len_(corpus)), i, n)
        /\ (i = 0 => \A p \in DOMAIN pageRank : pageRank[p].num = 0)
        /\ (pc = "returned" => i = n /\ RSumTo(pageRank, Len_(corpus)) = One)

\* C6 (steps): a step that changes the accumulators is one more sample; it
\* adds exactly 1/n to the current page and leaves every other page alone.
SampleStepAddsToCurrentPage ==
    (Sampling /\ pageRank' # pageRank) =>
        /\ i' = i + 1
        /\ \A p \in DOMAIN corpus :
             IF p = page
             THEN EqualsFraction(RSub(pageRank'[p], pageRank[p]), 1, n)
             ELSE pageRank'[p] = pageRank[p]

\* C6: sample_pagerank makes exactly n steps, each adding 1/n to the current
\* page only, so that the accumulators sum to k/n after k steps and to 1 at
\* the return.
SampleAccumulates ==
    /\ []SampleAccumulatorSums
    /\ [][SampleStepAddsToCurrentPage]_vars

\* C6 witness: a walk of two samples over three pages has returned, having
\* counted two different pages once each
SampleReturnedTwoPages ==
    /\ fn = "sample_pagerank"
    /\ pc = "returned"
    /\ n = 2
    /\ i = 2
    /\ Len_(corpus) = 3
    /\ \E p, q \in DOMAIN corpus :
         /\ p # q
         /\ pageRank[p] = Rat(1, 2)
         /\ pageRank[q] = Rat(1, 2)

\* C7: the walk of sample_pagerank starts at the page random.choice picked:
\* the page chosen is still the current page when the sampling loop begins,
\* and so is the first page counted.
WalkStartsAtChosenPage ==
    [][(fn = "sample_pagerank" /\ pc = "zero") => page' = page]_vars

\* C3: at the end of every pass the rank of every page is the formula
\* (1-d)/N + d * sum(old[k]/|corpus[k]|) read from the snapshot taken before
\* the pass, whatever the order the pages were visited in.
PassReadsSnapshot ==
    (fn = "iterate_pagerank" /\ pc = "for" /\ pos > Len_(corpus)) =>
        \A p \in DOMAIN corpus :
            pageRank[p] = rankFormula(corpus, pageRankCopy, p, damping_factor)

\* C4: when iterate_pagerank returns, every page's rank moved by less than
\* 0.001 in the last pass, upwards or downwards.
ReturnsOnlyWhenEveryChangeIsSmall ==
    (fn = "iterate_pagerank" /\ pc = "returned") =>
        \A p \in DOMAIN corpus :
            AbsBelowUnitFrac(RSub(pageRankCopy[p], pageRank[p]), ThresholdInverse)

\* C5: iterate_pagerank makes no more passes than the cap max_iterations of
\* the design's configuration, here a cap of two passes: once that many
\* passes are done it has stopped looping.  (The loop of iterate_pagerank
\* reads no such value.)
PassesBoundedByCap ==
    LET max_iterations == 2
    IN  fn = "iterate_pagerank" => passes <= max_iterations

\* C8: over a corpus without dangling pages the ranks iterate_pagerank
\* returns sum to 1, within 1e-6.
IterateRanksSumToOne ==
    (fn = "iterate_pagerank" /\ pc = "returned" /\ NoDangling(corpus)
       /\ Len_(corpus) >= 1) =>
        AbsWithinUnitFrac(RSub(RSumTo(pageRank, Len_(corpus)), One), 1000000)

\* C9: on an empty corpus neither sample_pagerank nor iterate_pagerank
\* returns a result.
EmptyCorpusNeverReturns ==
    (fn \in {"sample_pagerank", "iterate_pagerank"} /\ DOMAIN corpus = {}) =>
        pc # "returned"

\* C10: on the corpus of one page without links, transition_model returns
\* {A: 1}, and sample_pagerank and iterate_pagerank return {A: 1}.
IsolatedPageGetsOne ==
    (pc = "returned" /\ corpus = <<{}>>) =>
        /\ (fn = "transition_model" => probDist = <<One>>)
        /\ (fn \in {"sample_pagerank", "iterate_pagerank"} => pageRank = <<One>>)

====
